---- MODULE Spec2Model ----
(***************************************************************************)
(* ROI builders of plantcv/plantcv/roi/roi_methods.py:                     *)
(* from_binary_image, rectangle, circle, ellipse, _draw_roi and multi,     *)
(* together with the process-wide parameter context (params.device,        *)
(* params.debug) they read and mutate.  Every builder call is one action.  *)
(***************************************************************************)
EXTENDS Integers, Sequences, FiniteSets, TLC

VARIABLES
    device,     \* params.device
    debug,      \* params.debug
    files,      \* names of the files written so far by print-mode draws
    op,         \* the function called last
    outcome,    \* how that call ended: "ok" or the error raised
    last        \* its arguments and image, the context before it, what it
                \* returned, the draws it made, the circles it placed

vars == <<device, debug, files, op, outcome, last>>

\* Python's None as a value of params.debug and as the result of a failed call
None == "None"
\* an optional argument of multi is << >> when it is None and <<n>> when it
\* is the integer n; spacing is << >> or the pair <<sx, sy>>
Absent == << >>
Int1(n) == <<n>>

\* ------------------------------------------------------------------------
\* Bounds of the model
\* ------------------------------------------------------------------------
\* largest image side used by the single-call specifications
MaxDim == 4
\* calls are issued while the device counter is below this value
MaxDevice == 3
\* largest radius / semi-axis / rectangle overshoot tried
MaxRadius == 2
\* largest row / column count tried by multi
MaxCount == 2

\* ------------------------------------------------------------------------
\* Images, masks and the OpenCV primitives the builders delegate to
\* ------------------------------------------------------------------------
\* np.shape(img)[:2] gives (height, width); an image is its shape
Image(w, h) == [width |-> w, height |-> h]

\* valid pixel coordinates [0,width) x [0,height), points are <<x, y>>
Pixels(img) == (0 .. img.width - 1) \X (0 .. img.height - 1)

\* np.zeros((height, width)): a mask is the set of its nonzero pixels
Zeros == {}

\* filled disk of radius r around (x, y), before clipping to the mask
Disk(x, y, r) ==
    { p \in (x - r .. x + r) \X (y - r .. y + r) :
        (p[1] - x) * (p[1] - x) + (p[2] - y) * (p[2] - y) <= r * r }

\* filled ellipse with semi-axes (a, b) along x and y
AxisEllipse(x, y, a, b) ==
    { p \in (x - a .. x + a) \X (y - b .. y + b) :
        (p[1] - x) * (p[1] - x) * b * b + (p[2] - y) * (p[2] - y) * a * a
            <= a * a * b * b }

\* cv2.circle(bin_img, (x, y), r, 255, -1): draws onto the mask, clipped to it
cv2_circle(bin_img, img, x, y, r) == bin_img \cup (Disk(x, y, r) \cap Pixels(img))

\* cv2.ellipse(bin_img, (x, y), (r1, r2), angle, 0, 360, 255, -1), for the
\* axis-parallel angles 0 and 90 (at 90 the axes are exchanged)
cv2_ellipse(bin_img, img, x, y, r1, r2, angle) ==
    bin_img \cup ((IF angle = 0 THEN AxisEllipse(x, y, r1, r2)
                                ELSE AxisEllipse(x, y, r2, r1)) \cap Pixels(img))

\* the 4-neighbours and the 8-neighbours of a pixel
Nbr4(p) == { <<p[1] - 1, p[2]>>, <<p[1] + 1, p[2]>>, <<p[1], p[2] - 1>>, <<p[1], p[2] + 1>> }
Nbr8(p) == ((p[1] - 1 .. p[1] + 1) \X (p[2] - 1 .. p[2] + 1)) \ {p}
Nbrs(p, eight) == IF eight THEN Nbr8(p) ELSE Nbr4(p)

\* connected region of S that contains C, grown from the pixels added last:
\* foreground is 8-connected, background is 4-connected
RECURSIVE Region(_, _, _, _)
Region(new, C, S, eight) ==
    LET N == (UNION { Nbrs(p, eight) : p \in new } \cap S) \ C
    IN  IF N = {} THEN C ELSE Region(N, C \cup N, S, eight)

\* the connected regions of S
RECURSIVE Regions(_, _)
Regions(S, eight) ==
    IF S = {} THEN {}
    ELSE LET p == CHOOSE q \in S : TRUE
             R == Region({p}, {p}, S, eight)
         IN  {R} \cup Regions(S \ R, eight)

\* the mask with a one-pixel frame of background around it
Padded(img) == (-1 .. img.width) \X (-1 .. img.height)

\* first pixel of a component in raster order (top row first, then leftmost)
RasterFirst(C) ==
    CHOOSE p \in C : \A q \in C : p[2] < q[2] \/ (p[2] = q[2] /\ p[1] <= q[1])

\* cv2.findContours(mask, mode, CHAIN_APPROX_NONE)[-2:].  A contour is the set
\* of boundary pixels of one border (outer border of a component, or border of
\* a hole); the hierarchy gives each contour's parent.  mode "tree" keeps every
\* border with its nesting, mode "external" keeps the outermost borders only.
\* An empty mask gives no contour and an empty hierarchy.
\* NoParent stands for the parent index -1.
NoParent == [hole |-> FALSE, pts |-> {}]
findContours(mask, img, mode) ==
    LET bg        == Padded(img) \ mask
        frame     == Region({<<-1, -1>>}, {<<-1, -1>>}, bg, FALSE)
        comps     == Regions(mask, TRUE)
        holes     == Regions(bg \ frame, FALSE)
        outside(C) == LET f == RasterFirst(C)
                          q == <<f[1] - 1, f[2]>>
                      IN  IF q \in frame THEN frame ELSE CHOOSE R \in holes : q \in R
        border(C, R) == { p \in C : Nbr4(p) \cap R # {} }
        outer(C)  == [hole |-> FALSE, pts |-> border(C, outside(C))]
        inner(R)  == [hole |-> TRUE, pts |-> border(mask, R)]
        owner(R)  == LET p == CHOOSE p \in mask : Nbr4(p) \cap R # {}
                     IN  CHOOSE C \in comps : p \in C
        top       == { C \in comps : <<RasterFirst(C)[1] - 1, RasterFirst(C)[2]>> \in frame }
        tree      == { [contour |-> outer(C),
                        parent  |-> IF C \in top THEN NoParent ELSE inner(outside(C))]
                       : C \in comps }
                     \cup { [contour |-> inner(R), parent |-> outer(owner(R))]
                            : R \in holes }
        ext       == { [contour |-> [hole |-> FALSE, pts |-> border(C, frame)],
                        parent |-> NoParent] : C \in top }
        hier      == IF mode = "tree" THEN tree ELSE ext
    IN  [contours  |-> { e.contour : e \in hier },
         hierarchy |-> hier]

\* ------------------------------------------------------------------------
\* The parameter context and the collaborators outside roi_methods.py
\* ------------------------------------------------------------------------
\* params: the device counter and the debug mode
Params(dev, dbg) == [device |-> dev, debug |-> dbg]

\* what a call leaves behind: the context after it, how it ended, what it
\* returned, the draws it made and the circles it placed
Effect(ctx, how, ret, draws, placed) ==
    [device |-> ctx.device, debug |-> ctx.debug, outcome |-> how,
     ret |-> ret, draws |-> draws, placed |-> placed]

\* fatal_error(msg): the call is aborted at this point and the error reaches
\* the caller; nothing after it in the function runs
fatal_error(ctx, kind, draws, placed) == Effect(ctx, kind, None, draws, placed)

\* an exception raised by the interpreter or by OpenCV aborts the same way
Raise(ctx, kind, draws, placed) == Effect(ctx, kind, None, draws, placed)

\* the value of e, computed once and handed to F
Bind(e, F(_)) == CHOOSE r \in { F(v) : v \in {e} } : TRUE

\* params.device += 1
AutoIncrementStuck(ctx) == ctx
AutoIncrementTwice(ctx) == [device |-> ctx.device + 2, debug |-> ctx.debug]
AutoIncrement(ctx) == Params(ctx.device + 1, ctx.debug)

\* _draw_roi(img, roi_contour): print mode writes <device>_roi.png under
\* params.debug_outdir, plot mode shows the image
_draw_roi(img, roi_contour, ctx) ==
    IF ctx.debug = "print"
    THEN << [sink |-> "print_image", name |-> ctx.device, contour |-> roi_contour] >>
    ELSE IF ctx.debug = "plot"
    THEN << [sink |-> "plot_image", contour |-> roi_contour] >>
    ELSE << >>

\* "if params.debug is not None: _draw_roi(...)"
DrawIfRequested(img, roi_contour, ctx) ==
    IF ctx.debug # None THEN _draw_roi(img, roi_contour, ctx) ELSE << >>

\* ------------------------------------------------------------------------
\* Shape builders
\* ------------------------------------------------------------------------
\* a binary image argument: its shape and the value of every pixel
Unique(bin_img) == { bin_img.px[p] : p \in Pixels(bin_img.img) }
NonZero(bin_img) == { p \in Pixels(bin_img.img) : bin_img.px[p] # 0 }

from_binary_image(bin_img, img, ctx0) ==
    LET ctx == AutoIncrement(ctx0)
    IN  IF Cardinality(Unique(bin_img)) # 2
        THEN fatal_error(ctx, "InvalidInput", << >>, 0)
        ELSE LET found == findContours(NonZero(bin_img), bin_img.img, "tree")
             IN  Effect(ctx, "ok",
                        [roi_contour |-> found.contours, roi_hierarchy |-> found.hierarchy],
                        DrawIfRequested(img, found.contours, ctx), 0)

rectangle(x, y, h, w, img, ctx0) ==
    LET ctx == AutoIncrement(ctx0)
    IN  IF x < 0 \/ y < 0 \/ x + w > img.width \/ y + h > img.height
        THEN fatal_error(ctx, "BoundsError", << >>, 0)
        ELSE LET pt1 == <<x, y>>
                 pt2 == <<x, y + h - 1>>
                 pt3 == <<x + w - 1, y + h - 1>>
                 pt4 == <<x + w - 1, y>>
                 roi_contour == << <<pt1, pt2, pt3, pt4>> >>
                 roi_hierarchy == << <<-1, -1, -1, -1>> >>
             IN  Effect(ctx, "ok",
                        [roi_contour |-> roi_contour, roi_hierarchy |-> roi_hierarchy],
                        DrawIfRequested(img, roi_contour, ctx), 0)

\* the analytic bounds test of circle
CircleOutOfBounds(x, y, r, img) ==
    x - r < 0 \/ x + r > img.width \/ y - r < 0 \/ y + r > img.height

circle(x, y, r, img, ctx0) ==
    LET ctx == AutoIncrement(ctx0)
    IN  IF CircleOutOfBounds(x, y, r, img)
        THEN fatal_error(ctx, "BoundsError", << >>, 0)
        ELSE IF r < 0
        \* cv2.circle rejects a negative radius
        THEN Raise(ctx, "cv2.error", << >>, 0)
        ELSE LET bin_img == cv2_circle(Zeros, img, x, y, r)
                 found   == findContours(bin_img, img, "tree")
             IN  Effect(ctx, "ok",
                        [roi_contour |-> found.contours, roi_hierarchy |-> found.hierarchy],
                        DrawIfRequested(img, found.contours, ctx), 0)

\* bin_img[0, :], bin_img[-1, :], bin_img[:, 0], bin_img[:, -1]
EdgePixels(img) ==
    { p \in Pixels(img) : p[2] = 0 \/ p[2] = img.height - 1
                          \/ p[1] = 0 \/ p[1] = img.width - 1 }

ellipse(x, y, r1, r2, angle, img, ctx0) ==
    LET ctx == AutoIncrement(ctx0)
    IN  IF r1 < 0 \/ r2 < 0
        \* cv2.ellipse rejects negative axes
        THEN Raise(ctx, "cv2.error", << >>, 0)
        ELSE LET bin_img == cv2_ellipse(Zeros, img, x, y, r1, r2, angle)
             IN  IF bin_img \cap EdgePixels(img) # {}
                 THEN fatal_error(ctx, "BoundsError", << >>, 0)
                 ELSE LET found == findContours(bin_img, img, "tree")
                      IN  Effect(ctx, "ok",
                                 [roi_contour |-> found.contours,
                                  roi_hierarchy |-> found.hierarchy],
                                 DrawIfRequested(img, found.contours, ctx), 0)

\* ------------------------------------------------------------------------
\* Multi-ROI composer
\* ------------------------------------------------------------------------
\* Python's "a and b": a when a is falsy (None or 0), otherwise b
PyAnd(a, b) == IF a = Absent \/ a = Int1(0) THEN a ELSE b

\* the two branch conditions of multi
GridBranch(coord, nrows, ncols) ==
    coord.type = "tuple" /\ PyAnd(nrows, ncols) # Absent
ListBranch(coord, nrows, ncols) ==
    coord.type = "list" /\ PyAnd(nrows, ncols) = Absent

\* centers visited by "for i in range(0, nrows): for j in range(0, ncols)",
\* in the order visited; ncols is only read when there is a row to loop over
GridCenters(coord, spacing, nrows, ncols) ==
    IF nrows[1] <= 0 THEN << >>
    ELSE IF ncols[1] <= 0 THEN << >>
    ELSE [ k \in 1 .. nrows[1] * ncols[1] |->
             << coord.at[1][1] + ((k - 1) % ncols[1]) * spacing[1],
                coord.at[1][2] + ((k - 1) \div ncols[1]) * spacing[2] >> ]

\* one pass of the loop body, given what circle() did: the shared mask and
\* the lists are extended unless circle() raised
Placed(st, res, c, radius, img) ==
    IF res.outcome # "ok"
    THEN [st EXCEPT !.ctx = Params(res.device, res.debug),
                    !.draws = st.draws \o res.draws,
                    !.exc = res.outcome]
    ELSE LET bin  == cv2_circle(st.bin_img, img, c[1], c[2], radius)
             ext  == findContours(bin, img, "external")
             tree == findContours(bin, img, "tree")
         IN  [ctx |-> Params(res.device, res.debug),
              bin_img |-> bin,
              rois |-> Append(st.rois, res.ret),
              roi_contour |-> Append(st.roi_contour, ext.contours),
              roi_hierarchy |-> Append(st.roi_hierarchy, ext.hierarchy),
              roi_contour1 |-> tree.contours, bound1 |-> TRUE,
              draws |-> st.draws \o res.draws,
              exc |-> None]

\* one pass of the loop body: circle() at the center c, then the rest
Place(st, c, radius, img) ==
    Bind(circle(c[1], c[2], radius, img, st.ctx),
         LAMBDA res : Placed(st, res, c, radius, img))

\* the loop over the centers; an exception of circle() ends it.  bound1 tells
\* whether roi_contour1 has been assigned
RECURSIVE PlaceAll(_, _, _, _, _)
PlaceAll(st, centers, k, radius, img) ==
    IF k > Len(centers) \/ st.exc # None THEN st
    ELSE Bind(Place(st, centers[k], radius, img),
              LAMBDA nxt : PlaceAll(nxt, centers, k + 1, radius, img))

\* "params.debug = debug" and everything after it
Finish(st, saved, img) ==
    LET ctx == Params(st.ctx.device, saved)
    IN  IF ctx.debug # None /\ ~st.bound1
        THEN Raise(ctx, "UnboundLocalError", st.draws, Len(st.rois))
        ELSE Effect(ctx, "ok",
                    [roi_contour |-> st.roi_contour, roi_hierarchy |-> st.roi_hierarchy],
                    st.draws \o DrawIfRequested(img, st.roi_contour1, ctx),
                    Len(st.rois))

\* the end of a branch: an exception of circle() leaves multi at once
AfterLoop(st, saved, img) ==
    IF st.exc # None
    THEN Raise(st.ctx, st.exc, st.draws, Len(st.rois))
    ELSE Finish(st, saved, img)

multi(img, coord, radius, spacing, nrows, ncols, ctx0) ==
    LET ctx1  == AutoIncrement(ctx0)
        saved == ctx1.debug
        ctx   == Params(ctx1.device, None)
        start == [ctx |-> ctx, bin_img |-> Zeros, rois |-> << >>,
                  roi_contour |-> << >>, roi_hierarchy |-> << >>,
                  roi_contour1 |-> {}, bound1 |-> FALSE,
                  draws |-> << >>, exc |-> None]
    IN  IF GridBranch(coord, nrows, ncols)
        THEN IF nrows[1] >= 1 /\ spacing = Absent
             \* spacing[1] of None in the first row
             THEN Raise(ctx, "TypeError", << >>, 0)
             ELSE Bind(PlaceAll(start, GridCenters(coord, spacing, nrows, ncols),
                                1, radius, img),
                       LAMBDA st : AfterLoop(st, saved, img))
        ELSE IF ListBranch(coord, nrows, ncols)
        THEN Bind(PlaceAll(start, coord.at, 1, radius, img),
                  LAMBDA st : AfterLoop(st, saved, img))
        ELSE fatal_error(ctx, "ConfigurationError", << >>, 0)

\* ------------------------------------------------------------------------
\* State machine: the parameter context, the files written so far in print
\* mode, and the last call with its arguments and effect
\* ------------------------------------------------------------------------
RECURSIVE FileNames(_)
FileNames(draws) ==
    IF draws = << >> THEN << >>
    ELSE (IF Head(draws).sink = "print_image" THEN << Head(draws).name >> ELSE << >>)
         \o FileNames(Tail(draws))

Call(fn, args, img, effect) ==
    \E eff \in {effect} :
        /\ device' = eff.device
        /\ debug' = eff.debug
        /\ files' = files \o FileNames(eff.draws)
        /\ op' = fn
        /\ outcome' = eff.outcome
        /\ last' = [args |-> args, img |-> img,
                    device0 |-> device, debug0 |-> debug, ret |-> eff.ret,
                    draws |-> eff.draws, placed |-> eff.placed]

Here == Params(device, debug)

CallFromBinaryImage(bin_img, img) ==
    Call("from_binary_image", [bin_img |-> bin_img], img,
         from_binary_image(bin_img, img, Here))

CallRectangle(x, y, h, w, img) ==
    Call("rectangle", [x |-> x, y |-> y, h |-> h, w |-> w], img,
         rectangle(x, y, h, w, img, Here))

CallCircle(x, y, r, img) ==
    Call("circle", [x |-> x, y |-> y, r |-> r], img, circle(x, y, r, img, Here))

CallEllipse(x, y, r1, r2, angle, img) ==
    Call("ellipse", [x |-> x, y |-> y, r1 |-> r1, r2 |-> r2, angle |-> angle], img,
         ellipse(x, y, r1, r2, angle, img, Here))

CallMulti(img, coord, radius, spacing, nrows, ncols) ==
    Call("multi", [coord |-> coord, radius |-> radius, spacing |-> spacing,
                   nrows |-> nrows, ncols |-> ncols], img,
         multi(img, coord, radius, spacing, nrows, ncols, Here))

\* ------------------------------------------------------------------------
\* Inputs
\* ------------------------------------------------------------------------
Modes == {None, "print", "plot"}

\* reference images of the single-call specifications
Images == { Image(w, h) : w \in MaxDim - 1 .. MaxDim, h \in MaxDim - 1 .. MaxDim }
\* coordinates from two pixels before the image to two pixels after it
Coords == -2 .. MaxDim + 1
\* rectangle sides, from negative to larger than the image
Sides == -1 .. MaxDim + 1
\* radii and semi-axes, from negative up
Radii == -1 .. MaxRadius
Angles == {0, 90}
\* row and column counts of multi, absent, negative, zero or positive
Counts == {Absent} \cup { Int1(n) : n \in -1 .. MaxCount }
Spacings == {Absent, <<1, 1>>, <<2, 2>>}
\* the coord argument: a tuple (kept as the one point it holds) or a list of
\* points
Tuple(p) == [type |-> "tuple", at |-> <<p>>]
List(ps) == [type |-> "list", at |-> ps]
Centers == { <<1, 1>>, <<3, 1>>, <<1, 3>>, <<2, 2>> }
CoordArgs ==
    { Tuple(p) : p \in Centers }
    \cup { List(<< >>) } \cup { List(<<p>>) : p \in Centers }
    \cup { List(<<p, q>>) : p \in Centers, q \in Centers }

\* binary-image arguments: every 2 x 2 image over three intensity values
BinImages == { [img |-> Image(2, 2), px |-> f] : f \in [Pixels(Image(2, 2)) -> 0 .. 2] }

\* the smaller input sets used when calls are chained
SeqImage == Image(MaxDim, MaxDim)
SeqBinImages == { b \in BinImages : b.px[<<0, 0>>] = b.px[<<1, 0>>]
                                    /\ b.px[<<0, 1>>] = b.px[<<1, 1>>] }
SeqCoordArgs == { Tuple(<<1, 1>>), List(<< >>), List(<< <<1, 1>>, <<3, 1>> >>) }
SeqCounts == { Absent, Int1(-1), Int1(0), Int1(MaxCount) }

\* ------------------------------------------------------------------------
\* Specifications
\* ------------------------------------------------------------------------
Init ==
    /\ device = 0
    /\ debug \in Modes
    /\ files = << >>
    /\ op = "init"
    /\ outcome = "none"
    /\ last = [device0 |-> 0, debug0 |-> debug]

\* any sequence of builder and composer calls
\* calls are issued while the device counter is below MaxDevice
MayCall == device < MaxDevice

FromBinaryImage ==
    /\ MayCall
    /\ \E b \in SeqBinImages : CallFromBinaryImage(b, SeqImage)
Rectangle ==
    /\ MayCall
    /\ \E x \in {-1, 0}, y \in {0}, h \in {0, 2}, w \in {-1, 2, MaxDim + 1} :
           CallRectangle(x, y, h, w, SeqImage)
Circle ==
    /\ MayCall
    /\ \E x \in {1, MaxDim - 1}, y \in {1}, r \in {-1, 0, 1, 2} :
           CallCircle(x, y, r, SeqImage)
Ellipse ==
    /\ MayCall
    /\ \E x \in {1, MaxDim}, y \in {1}, r1 \in {0, 1}, r2 \in {-1, 0}, angle \in {0} :
           CallEllipse(x, y, r1, r2, angle, SeqImage)
Multi ==
    /\ MayCall
    /\ \E coord \in SeqCoordArgs, radius \in {1}, spacing \in {Absent, <<2, 2>>},
          nrows \in SeqCounts, ncols \in SeqCounts :
           CallMulti(SeqImage, coord, radius, spacing, nrows, ncols)

Next ==
    \/ FromBinaryImage
    \/ Rectangle
    \/ Circle
    \/ Ellipse
    \/ Multi

Spec == Init /\ [][Next]_vars

\* one call of a shape builder, over all of its inputs
First == op = "init"

OneRectangle ==
    /\ First
    /\ \E x \in Coords, y \in Coords, h \in Sides, w \in Sides, img \in Images :
           CallRectangle(x, y, h, w, img)
OneCircle ==
    /\ First
    /\ \E x \in Coords, y \in Coords, r \in Radii, img \in Images :
           CallCircle(x, y, r, img)
OneEllipse ==
    /\ First
    /\ \E x \in Coords, y \in Coords, r1 \in Radii, r2 \in Radii, angle \in Angles,
          img \in Images : CallEllipse(x, y, r1, r2, angle, img)

NextShape ==
    \/ OneRectangle
    \/ OneCircle
    \/ OneEllipse

SpecShape == Init /\ [][NextShape]_vars

\* one call of multi, over all of its inputs
OneMulti ==
    /\ First
    /\ \E coord \in CoordArgs, radius \in -1 .. 1, spacing \in Spacings,
          nrows \in Counts, ncols \in Counts, img \in {Image(MaxDim, MaxDim)} :
           CallMulti(img, coord, radius, spacing, nrows, ncols)

NextMulti == OneMulti

SpecMulti == Init /\ [][NextMulti]_vars
\* ------------------------------------------------------------------------
\* Properties
\* ------------------------------------------------------------------------
IsCall(fn) == op = fn
Succeeded(fn) == op = fn /\ outcome = "ok"

\* the two modes of multi as the specification describes them: a single tuple
\* with spacing, nrows and ncols all given, or a list with neither count given
ClaimedGrid(a) ==
    a.coord.type = "tuple" /\ a.spacing # Absent /\ a.nrows # Absent /\ a.ncols # Absent
ClaimedList(a) ==
    a.coord.type = "list" /\ a.nrows = Absent /\ a.ncols = Absent

\* C1: after every call of multi, whatever its outcome, the debug mode is
\* the one the caller had set before the call.
C1_DebugRestored == IsCall("multi") => debug = last.debug0

\* C2 as stated: the device counter never decreases, a successful shape
\* builder call raises it by 1, a successful multi call by 1 + nrows*ncols in
\* grid mode and by 1 + the length of the coordinate list in list mode.
ClaimedPlaced(fn, l) ==
    IF fn # "multi" THEN 0
    ELSE IF l.args.coord.type = "list" THEN Len(l.args.coord.at)
    ELSE l.args.nrows[1] * l.args.ncols[1]
C2_CounterByProduct ==
    [][ /\ device' >= device
        /\ (outcome' = "ok"
              /\ (op' = "multi" => ClaimedGrid(last'.args) \/ ClaimedList(last'.args)))
            => device' = device + 1 + ClaimedPlaced(op', last') ]_vars

\* C2 as amended: the device counter never decreases, a successful shape
\* builder call raises it by 1, a successful multi call by 1 + the number of
\* circles placed: nrows*ncols in grid mode when both counts are positive and
\* 0 when a count is zero, negative or missing, the length of the coordinate
\* list in list mode.
PlacedByInputs(fn, l) ==
    IF fn # "multi" THEN 0
    ELSE IF l.args.coord.type = "list" THEN Len(l.args.coord.at)
    ELSE IF l.args.nrows = Absent \/ l.args.ncols = Absent THEN 0
    ELSE IF l.args.nrows[1] <= 0 \/ l.args.ncols[1] <= 0 THEN 0
    ELSE l.args.nrows[1] * l.args.ncols[1]
C2_CounterByPlaced ==
    [][ /\ device' >= device
        /\ (outcome' = "ok" => device' = device + 1 + PlacedByInputs(op', last')) ]_vars
\* a multi call in the middle of a sequence has placed two circles
C2_Witness ==
    /\ Succeeded("multi") /\ last.placed = 2 /\ last.device0 >= 1
    /\ device = last.device0 + 3

\* C3: multi runs in grid mode only for a tuple with spacing, nrows and ncols
\* all given, in list mode only for a list with neither nrows nor ncols given,
\* and every other input fails with the Configuration error before any circle
\* is placed.
C3_ModeSelection ==
    (IsCall("multi") /\ ~ClaimedGrid(last.args) /\ ~ClaimedList(last.args))
        => /\ outcome = "ConfigurationError"
           /\ last.placed = 0
           /\ device = last.device0 + 1

\* C4: a successful multi call that placed n circles returns two lists of
\* length n whose k-th entries are the external contour and the hierarchy of
\* the k-th circle alone (row-major grid order, or the order of the list).
ClaimedCenters(a) ==
    IF a.coord.type = "list" THEN a.coord.at
    ELSE GridCenters(a.coord, a.spacing, a.nrows, a.ncols)
CircleAlone(c, r, img) ==
    findContours(cv2_circle(Zeros, img, c[1], c[2], r), img, "external")
C4_PerCircleEntries ==
    Succeeded("multi") =>
        /\ Len(last.ret.roi_contour) = last.placed
        /\ Len(last.ret.roi_hierarchy) = last.placed
        /\ \A k \in 1 .. last.placed :
             LET alone == CircleAlone(ClaimedCenters(last.args)[k], last.args.radius, last.img)
             IN  /\ last.ret.roi_contour[k] = alone.contours
                 /\ last.ret.roi_hierarchy[k] = alone.hierarchy

\* C5: rectangle fails with the Bounds error exactly when x<0, y<0,
\* x+w>width or y+h>height; otherwise it returns the one contour (x,y),
\* (x,y+h-1), (x+w-1,y+h-1), (x+w-1,y), whose bounding box is
\* [x, x+w-1] x [y, y+h-1], and the hierarchy entry [-1,-1,-1,-1].
Range(seq) == { seq[i] : i \in 1 .. Len(seq) }
BoundingBox(pts) ==
    [xmin |-> CHOOSE v \in { p[1] : p \in pts } : \A p \in pts : v <= p[1],
     xmax |-> CHOOSE v \in { p[1] : p \in pts } : \A p \in pts : v >= p[1],
     ymin |-> CHOOSE v \in { p[2] : p \in pts } : \A p \in pts : v <= p[2],
     ymax |-> CHOOSE v \in { p[2] : p \in pts } : \A p \in pts : v >= p[2]]
C5_RectangleContract ==
    IsCall("rectangle") =>
        LET a   == last.args
            out == a.x < 0 \/ a.y < 0 \/ a.x + a.w > last.img.width
                   \/ a.y + a.h > last.img.height
        IN  IF out THEN outcome = "BoundsError" /\ last.ret = None
            ELSE /\ outcome = "ok"
                 /\ last.ret.roi_contour
                      = << << <<a.x, a.y>>, <<a.x, a.y + a.h - 1>>,
                              <<a.x + a.w - 1, a.y + a.h - 1>>, <<a.x + a.w - 1, a.y>> >> >>
                 /\ BoundingBox(Range(last.ret.roi_contour[1]))
                      = [xmin |-> a.x, xmax |-> a.x + a.w - 1,
                         ymin |-> a.y, ymax |-> a.y + a.h - 1]
                 /\ last.ret.roi_hierarchy = << <<-1, -1, -1, -1>> >>

\* C6: a circle call that does not fail with the Bounds error has every
\* pixel of the box [x-r, x+r] x [y-r, y+r] inside the image, so the disk is
\* not clipped.
C6_CircleBoxInside ==
    (IsCall("circle") /\ outcome # "BoundsError") =>
        LET a == last.args
        IN  /\ (a.x - a.r .. a.x + a.r) \X (a.y - a.r .. a.y + a.r) \subseteq Pixels(last.img)
            /\ Disk(a.x, a.y, a.r) \subseteq Pixels(last.img)

\* C7: every ellipse whose filled geometry has a point outside the image,
\* be it partly or entirely outside, fails with the Bounds error.
Geometry(a) ==
    IF a.angle = 0 THEN AxisEllipse(a.x, a.y, a.r1, a.r2)
    ELSE AxisEllipse(a.x, a.y, a.r2, a.r1)
C7_EllipseOutsideFails ==
    (IsCall("ellipse") /\ ~(Geometry(last.args) \subseteq Pixels(last.img)))
        => outcome = "BoundsError"

\* C8: every contour returned by a successful rectangle, circle or ellipse
\* call has all of its points inside [0,width) x [0,height).
ContourPoints ==
    IF op = "rectangle" THEN UNION { Range(c) : c \in Range(last.ret.roi_contour) }
    ELSE UNION { c.pts : c \in last.ret.roi_contour }
C8_ContourInsideImage ==
    (Succeeded("rectangle") \/ Succeeded("circle") \/ Succeeded("ellipse"))
        => ContourPoints \subseteq Pixels(last.img)

\* C9: the counter values in the names of the files written in print mode
\* strictly increase in the order the files are written, so no two draws
\* write the same file, and the one draw of a multi call is named after the
\* counter value reached after all of its nested circle calls.
C9_FileNamesOrdered ==
    /\ \A i \in 1 .. Len(files), j \in 1 .. Len(files) : i < j => files[i] < files[j]
    /\ (IsCall("multi") /\ last.draws # << >>) =>
          /\ Len(last.draws) = 1
          /\ last.draws[1].sink = "print_image"
                => last.draws[1].name = last.device0 + 1 + last.placed
\* a multi call that placed circles has written the third file or a later one
C9_Witness ==
    /\ Len(files) >= 2
    /\ Succeeded("multi") /\ last.placed >= 1 /\ last.debug0 = "print"
    /\ files[Len(files)] = device

\* C10: a multi call with a valid mode and a proper radius that meets no
\* bounds error returns normally, draws nothing during its circle calls, and
\* draws exactly once, the combined contours of all placed circles, when the
\* caller's debug mode is active; this also for zero placements.
RECURSIVE Combined(_, _, _, _)
Combined(centers, k, r, img) ==
    IF k = 0 THEN Zeros
    ELSE cv2_circle(Combined(centers, k - 1, r, img), img, centers[k][1], centers[k][2], r)
C10_OneAggregateDraw ==
    (/\ IsCall("multi")
     /\ ClaimedGrid(last.args) \/ ClaimedList(last.args)
     /\ last.args.radius >= 0
     /\ outcome # "BoundsError")
        => /\ outcome = "ok"
           /\ IF last.debug0 = None THEN last.draws = << >>
              ELSE /\ Len(last.draws) = 1
                   /\ last.draws[1].contour
                        = findContours(Combined(ClaimedCenters(last.args), last.placed,
                                                last.args.radius, last.img),
                                       last.img, "tree").contours
====
